---- MODULE Spec2Model ----
(***************************************************************************)
(* FPL analytics: the squad/transfer optimisation engine                   *)
(* (FPLPlayerAnalyzer, src/analyze_my_team.py) and the fixture predictor   *)
(* (AdvancedFixturePredictor, src/advanced_fixture_predictor.py).          *)
(*                                                                         *)
(* Numbers.  The code computes in binary floating point; the model uses    *)
(* exact rationals over integers:                                          *)
(*   price                 tenths of a currency unit (the API's now_cost)  *)
(*   form, points_per_game, ict_index        tenths                        *)
(*   expected_goals, expected_assists        hundredths                    *)
(*   value_score           numerator over the frame's score_den            *)
(*   team strength         hundredths                                      *)
(*   probabilities         numerators over ProbDen                         *)
(* NaN stands for a missing (null or unparseable) value of a column.       *)
(***************************************************************************)
EXTENDS Integers, Sequences, FiniteSets, TLC

VARIABLES
    upstream,       \* the player rows the data source serves (bootstrap-static)
    players_df,     \* FPLPlayerAnalyzer.players_df
    team_strength,  \* AdvancedFixturePredictor.team_strength
    result,         \* what the last operation returned (or raised)
    assistant,      \* app.py: the global assistant
    my_team,        \* FPLAssistant.my_team
    my_team_file,   \* the content of the file my_fpl_team.json
    fixtures,       \* the fixture rows the data source serves (fixtures/)
    fixtures_df     \* FPLPlayerAnalyzer.fixtures_df

vars == <<upstream, players_df, team_strength, result, assistant, my_team,
          my_team_file, fixtures, fixtures_df>>

\* the state of the web application and of the saved team
app == <<assistant, my_team, my_team_file>>

----------------------------------------------------------------------------
(* Generic helpers                                                         *)

NaN == -1

Positions == <<"GK", "DEF", "MID", "FWD">>

Range(s) == {s[i] : i \in DOMAIN s}

Min2(a, b) == IF b < a THEN b ELSE a

Max2(a, b) == IF b > a THEN b ELSE a

SetMin(S) == CHOOSE x \in S : \A y \in S : x <= y

SetMax(S) == CHOOSE x \in S : \A y \in S : x >= y

Abs(x) == IF x < 0 THEN -x ELSE x

RECURSIVE Gcd(_, _)
Gcd(a, b) == IF b = 0 THEN a ELSE Gcd(b, a % b)

Lcm(a, b) == (a \div Gcd(a, b)) * b

RECURSIVE SetLcm(_)
SetLcm(S) ==
    IF S = {} THEN 1
    ELSE LET x == CHOOSE y \in S : TRUE IN Lcm(x, SetLcm(S \ {x}))

RECURSIVE SetGcd(_)
SetGcd(S) ==
    IF S = {} THEN 0
    ELSE LET x == CHOOSE y \in S : TRUE IN Gcd(x, SetGcd(S \ {x}))

RECURSIVE SumSeq(_)
SumSeq(s) == IF s = <<>> THEN 0 ELSE Head(s) + SumSeq(Tail(s))

Take(s, n) == SubSeq(s, 1, Min2(Len(s), n))

----------------------------------------------------------------------------
(* ScoreModel: FPLPlayerAnalyzer.calculate_value_score                     *)

Metrics ==
    <<"points_per_game", "form", "points_per_million", "ict_index",
      "expected_involvement">>

\* weights of the composite, in hundredths
Weights ==
    [points_per_game |-> 25, form |-> 25, points_per_million |-> 20,
     ict_index |-> 15, expected_involvement |-> 15]

\* pd.to_numeric(errors='coerce'): a value that does not parse becomes NaN
ToNumeric(x) == IF x < 0 THEN NaN ELSE x

\* df.fillna(0)
FillNa(x) == IF x = NaN THEN 0 ELSE x

\* lines 29-40: drop the rows without minutes, coerce, fill the missing values
Cleaned(rows) ==
    LET kept == SelectSeq(rows, LAMBDA r : r.minutes > 0)
        Clean(r) ==
            [r EXCEPT
                !.selected_by_percent = FillNa(ToNumeric(@)),
                !.form = FillNa(ToNumeric(@)),
                !.points_per_game = FillNa(ToNumeric(@)),
                !.ict_index = FillNa(ToNumeric(@)),
                !.expected_goals = FillNa(ToNumeric(@)),
                !.expected_assists = FillNa(ToNumeric(@)),
                !.chance_of_playing_next_round = FillNa(@)]
    IN  [i \in DOMAIN kept |-> Clean(kept[i])]

\* lines 43-47: the raw value of each metric of each row, as an integer.
\* total_points / price is a rational: all rows are put over the least common
\* multiple of the prices and reduced by the common divisor, which min-max
\* scaling cancels.
MetricValues(rows) ==
    LET L == SetLcm({rows[i].price : i \in DOMAIN rows})
        ppm == [i \in DOMAIN rows |-> rows[i].total_points * (L \div rows[i].price)]
        g == SetGcd({ppm[i] : i \in DOMAIN rows})
        d == IF g = 0 THEN 1 ELSE g
    IN  [i \in DOMAIN rows |->
            [points_per_game |-> rows[i].points_per_game,
             form |-> rows[i].form,
             points_per_million |-> ppm[i] \div d,
             ict_index |-> rows[i].ict_index,
             expected_involvement |->
                 rows[i].expected_goals + rows[i].expected_assists]]

\* MinMaxScaler.fit: data_range_ per metric, a zero range handled as 1
ScalerRange(vals, m) ==
    LET xs == {vals[i][m] : i \in DOMAIN vals}
        span == SetMax(xs) - SetMin(xs)
    IN  IF span = 0 THEN 1 ELSE span

\* a transform that forgets to subtract the minimum
ScalerTransformUnshifted(vals, m, i) == vals[i][m]

\* MinMaxScaler.transform: (x - min) over the range; the numerator
ScalerTransform(vals, m, i) ==
    vals[i][m] - SetMin({vals[j][m] : j \in DOMAIN vals})

RECURSIVE ProdRanges(_, _)
ProdRanges(rng, ms) ==
    IF ms = {} THEN 1
    ELSE LET m == CHOOSE x \in ms : TRUE IN rng[m] * ProdRanges(rng, ms \ {m})

MetricSet == Range(Metrics)

\* the common denominator of the composite: 100 (the weights) times the ranges
CompositeDen(rng) == 100 * ProdRanges(rng, MetricSet)

\* line 65: sum(df[col] * weight), as a numerator over CompositeDen
Composite(norm, rng) ==
    LET term(m) == Weights[m] * norm[m] * ProdRanges(rng, MetricSet \ {m})
    IN  term("points_per_game") + term("form") + term("points_per_million")
        + term("ict_index") + term("expected_involvement")

\* line 68: value_score *= 0.5 where the chance of playing is below 100; in halves
PenaltyChance(r) == IF r.chance_of_playing_next_round < 100 THEN 1 ELSE 2

\* line 69: value_score *= 0.3 where the status is not 'a'; in tenths
PenaltyStatus(r) == IF r.status # "a" THEN 3 ELSE 10

\* lines 65-69: value_score as a numerator over ScoreDen
Penalised(composite, r) == composite * PenaltyChance(r) * PenaltyStatus(r)

ScoreDen(rng) == 20 * CompositeDen(rng)

\* a scoring that applies the penalties to the value_score already in the
\* frame instead of recomputing it
ScoredFrameCompounding(rows) ==
    LET df == Cleaned(rows)
        vals == MetricValues(df)
        rng == [m \in MetricSet |-> ScalerRange(vals, m)]
        norm == [i \in DOMAIN df |-> [m \in MetricSet |-> ScalerTransform(vals, m, i)]]
        Base(i) == IF "value_score" \in DOMAIN df[i]
                   THEN df[i].value_score \div 20
                   ELSE Composite(norm[i], rng)
    IN  [loaded |-> TRUE,
         has_value_score |-> TRUE,
         rows |-> [i \in DOMAIN df |->
                     [normalized |-> norm[i],
                      value_score |-> Penalised(Base(i), df[i])]
                     @@ df[i]],
         scale |-> rng,
         score_den |-> ScoreDen(rng)]

\* the frame calculate_value_score builds from the rows it is given
ScoredFrame(rows) ==
    LET df == Cleaned(rows)
        vals == MetricValues(df)
        rng == [m \in MetricSet |-> ScalerRange(vals, m)]
        norm == [i \in DOMAIN df |-> [m \in MetricSet |-> ScalerTransform(vals, m, i)]]
    IN  [loaded |-> TRUE,
         has_value_score |-> TRUE,
         rows |-> [i \in DOMAIN df |->
                     [normalized |-> norm[i],
                      value_score |-> Penalised(Composite(norm[i], rng), df[i])]
                     @@ df[i]],
         scale |-> rng,
         score_den |-> ScoreDen(rng)]

\* players_df = None
None == [loaded |-> FALSE]

\* the columns of a frame
Columns(rows) == IF rows = <<>> THEN {} ELSE DOMAIN rows[1]

\* lines 29-69: the columns calculate_value_score indexes, in the order in
\* which it does
IndexedColumns ==
    <<"minutes", "selected_by_percent", "form", "points_per_game", "ict_index",
      "expected_goals", "expected_assists", "total_points", "price",
      "chance_of_playing_next_round", "status">>

\* the first column calculate_value_score indexes that the frame has not
\* ("" when it has them all): df[column] raises KeyError(column)
MissingColumn(rows) ==
    LET absent == {k \in DOMAIN IndexedColumns : IndexedColumns[k] \notin Columns(rows)}
    IN  IF absent = {} THEN "" ELSE IndexedColumns[SetMin(absent)]

\* calculate_value_score on the frame df: what it raises, and the frame it
\* leaves in self.players_df.  None has no copy(); a column that is not there
\* cannot be indexed; MinMaxScaler refuses a frame without rows; all three
\* leave players_df as it was.
CalculateValueScore(df) ==
    IF ~df.loaded THEN [raised |-> "AttributeError", key |-> "", df |-> df]
    ELSE IF MissingColumn(df.rows) # ""
    THEN [raised |-> "KeyError", key |-> MissingColumn(df.rows), df |-> df]
    ELSE IF Cleaned(df.rows) = <<>> THEN [raised |-> "ValueError", key |-> "", df |-> df]
    ELSE [raised |-> "none", key |-> "", df |-> ScoredFrame(df.rows)]

\* lines 94-95, 120-121, 186-187: score first when no value_score is there
EnsureScored(df) ==
    IF ~df.loaded \/ ~df.has_value_score
    THEN CalculateValueScore(df)
    ELSE [raised |-> "none", key |-> "", df |-> df]

----------------------------------------------------------------------------
(* SquadBuilder: FPLPlayerAnalyzer.build_optimal_squad                     *)

\* lines 127-132: the formation
Formation == ("GK" :> 2) @@ ("DEF" :> 5) @@ ("MID" :> 5) @@ ("FWD" :> 3)

\* line 152: the per-club cap
MaxPerTeam == 3

\* lines 135-138: the rows of a position whose status is 'a', as row indexes
PositionPlayers(rows, position) ==
    {i \in DOMAIN rows : rows[i].position = position /\ rows[i].status = "a"}

\* line 141: sort_values('value_score', ascending=False).  The sort is not a
\* stable one, so rows of equal score may come in any order: every order of
\* the indexes S that descends in value_score.
RECURSIVE SortValues(_, _)
SortValues(rows, S) ==
    IF S = {} THEN {<<>>}
    ELSE LET top == SetMax({rows[i].value_score : i \in S})
         IN  UNION {{<<i>> \o rest : rest \in SortValues(rows, S \ {i})} :
                        i \in {j \in S : rows[j].value_score = top}}

\* lines 123-125: the state of the selection before the first position
EmptySelection(budget) ==
    [squad |-> <<>>, remaining_budget |-> budget, team_counts |-> <<>>]

\* a count that adds up the members of every club
TeamCountAnyClub(team_counts, team) ==
    SumSeq([k \in DOMAIN team_counts |-> team_counts[k][2]])

\* team_counts.get(player_team, 0); team_counts is a sequence of <<team, count>>
TeamCount(team_counts, team) ==
    LET hit == {k \in DOMAIN team_counts : team_counts[k][1] = team}
    IN  IF hit = {} THEN 0 ELSE team_counts[CHOOSE k \in hit : TRUE][2]

\* team_counts[player_team] = n
SetTeamCount(team_counts, team, n) ==
    LET hit == {k \in DOMAIN team_counts : team_counts[k][1] = team}
    IN  IF hit = {} THEN Append(team_counts, <<team, n>>)
        ELSE [team_counts EXCEPT ![CHOOSE k \in hit : TRUE] = <<team, n>>]

\* a scan whose cap test is off by one
ConsiderCapOffByOne(sel, player) ==
    LET current_team_count == TeamCount(sel.team_counts, player.team_short)
    IN  IF current_team_count > MaxPerTeam THEN sel
        ELSE IF player.price <= sel.remaining_budget
        THEN [squad |-> Append(sel.squad, player),
              remaining_budget |-> sel.remaining_budget - player.price,
              team_counts |-> SetTeamCount(sel.team_counts, player.team_short,
                                           current_team_count + 1)]
        ELSE sel

\* a scan that does not subtract the price of the player it takes
ConsiderBudgetKept(sel, player) ==
    LET current_team_count == TeamCount(sel.team_counts, player.team_short)
    IN  IF current_team_count >= MaxPerTeam THEN sel
        ELSE IF player.price <= sel.remaining_budget
        THEN [squad |-> Append(sel.squad, player),
              remaining_budget |-> sel.remaining_budget,
              team_counts |-> SetTeamCount(sel.team_counts, player.team_short,
                                           current_team_count + 1)]
        ELSE sel

\* lines 148-159: one candidate of the scan, given that the quota is not filled:
\* skipped when its club is full or its price is above what remains
Consider(sel, player) ==
    LET current_team_count == TeamCount(sel.team_counts, player.team_short)
    IN  IF current_team_count >= MaxPerTeam THEN sel
        ELSE IF player.price <= sel.remaining_budget
        THEN [squad |-> Append(sel.squad, player),
              remaining_budget |-> sel.remaining_budget - player.price,
              team_counts |-> SetTeamCount(sel.team_counts, player.team_short,
                                           current_team_count + 1)]
        ELSE sel

\* a scan that does not stop at the quota
RECURSIVE SelectPositionUnbounded(_, _, _, _, _)
SelectPositionUnbounded(sel, rows, order, selected, count) ==
    IF order = <<>> THEN sel
    ELSE SelectPositionUnbounded(Consider(sel, rows[Head(order)]), rows,
                                 Tail(order), selected, count)

\* a scan that ends at the first candidate it cannot take
RECURSIVE SelectPositionStopAtReject(_, _, _, _, _)
SelectPositionStopAtReject(sel, rows, order, selected, count) ==
    IF order = <<>> \/ selected >= count THEN sel
    ELSE LET next == Consider(sel, rows[Head(order)])
         IN  IF Len(next.squad) = Len(sel.squad) THEN sel
             ELSE SelectPositionStopAtReject(next, rows, Tail(order),
                                             selected + 1, count)

\* a scan that stops one player after the quota
RECURSIVE SelectPositionPastQuota(_, _, _, _, _)
SelectPositionPastQuota(sel, rows, order, selected, count) ==
    IF order = <<>> \/ selected > count THEN sel
    ELSE LET next == Consider(sel, rows[Head(order)])
         IN  SelectPositionPastQuota(next, rows, Tail(order),
                                     IF Len(next.squad) > Len(sel.squad)
                                     THEN selected + 1 ELSE selected,
                                     count)

\* lines 143-159: the scan of one position's sorted candidates, `selected`
\* of them taken so far; it stops when the quota `count` is filled
RECURSIVE SelectPosition(_, _, _, _, _)
SelectPosition(sel, rows, order, selected, count) ==
    IF order = <<>> \/ selected >= count THEN sel
    ELSE LET next == Consider(sel, rows[Head(order)])
         IN  SelectPosition(next, rows, Tail(order),
                            IF Len(next.squad) > Len(sel.squad)
                            THEN selected + 1 ELSE selected,
                            count)

\* a selection whose count of accepted players is not reset between positions
RECURSIVE SelectSquadCountCarried(_, _, _, _)
SelectSquadCountCarried(sel, rows, orders, positions) ==
    IF positions = <<>> THEN sel
    ELSE LET p == Head(positions)
         IN  SelectSquadCountCarried(
                 SelectPosition(sel, rows, orders[p], Len(sel.squad), Formation[p]),
                 rows, orders, Tail(positions))

\* lines 134-159: the positions in the formation's order; orders[p] is the
\* sorted order of position p's candidates
RECURSIVE SelectSquad(_, _, _, _)
SelectSquad(sel, rows, orders, positions) ==
    IF positions = <<>> THEN sel
    ELSE LET p == Head(positions)
         IN  SelectSquad(SelectPosition(sel, rows, orders[p], 0, Formation[p]),
                         rows, orders, Tail(positions))

\* the sorted orders sort_values may produce, one per position
SquadOrders(rows) ==
    LET Sorted(p) == SortValues(rows, PositionPlayers(rows, p))
    IN  {("GK" :> g) @@ ("DEF" :> d) @@ ("MID" :> m) @@ ("FWD" :> f) :
            g \in Sorted("GK"), d \in Sorted("DEF"),
            m \in Sorted("MID"), f \in Sorted("FWD")}

\* lines 161-179: squad_df and its total; an empty squad has no 'price' column
BuildOptimalSquad(df, budget, orders) ==
    LET sel == SelectSquad(EmptySelection(budget), df.rows, orders, Positions)
    IN  IF sel.squad = <<>>
        THEN [op |-> "build_optimal_squad", raised |-> "KeyError", budget |-> budget]
        ELSE [op |-> "build_optimal_squad", raised |-> "none", budget |-> budget,
              squad |-> sel.squad,
              total_cost |-> SumSeq([k \in DOMAIN sel.squad |-> sel.squad[k].price]),
              team_counts |-> sel.team_counts]

----------------------------------------------------------------------------
(* TransferRecommender: FPLPlayerAnalyzer.recommend_transfers              *)

\* lines 212-213: the price window, in tenths
PriceWindow == 15

\* line 220: nlargest(100, ...)
MaxReplacements == 100

\* lines 261, 289: the top 3
TopN == 3

RECURSIVE Flatten(_)
Flatten(ss) == IF ss = <<>> THEN <<>> ELSE Head(ss) \o Flatten(Tail(ss))

\* the indexes S of keys by descending key, equal keys in their order of
\* appearance: sorted(..., reverse=True) and nlargest both keep that order
RECURSIVE StableOrder(_, _)
StableOrder(keys, S) ==
    IF S = {} THEN <<>>
    ELSE LET top == SetMax({keys[i] : i \in S})
             k == SetMin({i \in S : keys[i] = top})
         IN  <<k>> \o StableOrder(keys, S \ {k})

\* the sequence s by descending keys[i], stable
SortDescStable(s, keys) ==
    LET order == StableOrder(keys, DOMAIN s)
    IN  [n \in DOMAIN s |-> s[order[n]]]

\* line 193: current_team['team_short'].value_counts().to_dict()
ValueCounts(current_team) ==
    [t \in {current_team[i].team_short : i \in DOMAIN current_team} |->
        Cardinality({i \in DOMAIN current_team : current_team[i].team_short = t})]

\* replacements that admit a score equal to the squad member's
ReplacementsNotStrict(available_pos, current_player) ==
    LET price_min == current_player.price - PriceWindow
        price_max == current_player.price + PriceWindow
        Fits(r) == /\ r.price >= price_min
                   /\ r.price <= price_max
                   /\ r.value_score >= current_player.value_score
                   /\ r.status = "a"
    IN  LET fit == SelectSeq(available_pos, Fits)
        IN  Take(SortDescStable(fit, [i \in DOMAIN fit |-> fit[i].value_score]),
                 MaxReplacements)

\* the replacements without the upper end of the price window
ReplacementsNoPriceMax(available_pos, current_player) ==
    LET price_min == current_player.price - PriceWindow
        Fits(r) == /\ r.price >= price_min
                   /\ r.value_score > current_player.value_score
                   /\ r.status = "a"
    IN  LET fit == SelectSeq(available_pos, Fits)
        IN  Take(SortDescStable(fit, [i \in DOMAIN fit |-> fit[i].value_score]),
                 MaxReplacements)

\* lines 215-220: the replacements of one squad member
Replacements(available_pos, current_player) ==
    LET price_min == current_player.price - PriceWindow
        price_max == current_player.price + PriceWindow
        Fits(r) == /\ r.price >= price_min
                   /\ r.price <= price_max
                   /\ r.value_score > current_player.value_score
                   /\ r.status = "a"
    IN  LET fit == SelectSeq(available_pos, Fits)
        IN  Take(SortDescStable(fit, [i \in DOMAIN fit |-> fit[i].value_score]),
                 MaxReplacements)

\* lines 224-235: the club's count after the swap; 0 stands for `continue`
TeamCountAfter(team_counts, replacement, current_player) ==
    LET replacement_team == replacement.team_short
        current_player_team == current_player.team_short
    IN  IF replacement_team \in DOMAIN team_counts
        THEN IF replacement_team = current_player_team
             THEN team_counts[replacement_team]
             ELSE IF team_counts[replacement_team] >= MaxPerTeam
                  THEN 0
                  ELSE team_counts[replacement_team] + 1
        ELSE 1

\* lines 222-254: the recommendations one squad member contributes
PlayerRecommendations(team_counts, available_pos, current_player) ==
    LET repl == Replacements(available_pos, current_player)
        Passes(r) ==
            LET n == TeamCountAfter(team_counts, r, current_player)
            IN  n # 0 /\ n <= MaxPerTeam
        kept == SelectSeq(repl, Passes)
    IN  [k \in DOMAIN kept |->
            [position |-> current_player.position,
             out |-> current_player.id,
             out_team |-> current_player.team_short,
             out_price |-> current_player.price,
             out_score |-> current_player.value_score,
             in |-> kept[k].id,
             in_team |-> kept[k].team_short,
             in_price |-> kept[k].price,
             in_score |-> kept[k].value_score,
             price_change |-> kept[k].price - current_player.price,
             score_improvement |-> kept[k].value_score - current_player.value_score,
             team_count_after |-> TeamCountAfter(team_counts, kept[k], current_player)]]

\* lines 200-261: the top 3 of one position
PositionRecommendations(team_counts, current_team, available, position) ==
    LET current_pos == SelectSeq(current_team, LAMBDA r : r.position = position)
        available_pos == SelectSeq(available, LAMBDA r : r.position = position)
        found == Flatten([k \in DOMAIN current_pos |->
                     PlayerRecommendations(team_counts, available_pos, current_pos[k])])
    IN  Take(SortDescStable(found, [i \in DOMAIN found |-> found[i].score_improvement]), TopN)

\* a recommender that frames the list without asking whether it is empty
RecommendTransfersUnguarded(df, current_team_ids, transfers_available) ==
    LET current_team == SelectSeq(df.rows, LAMBDA r : r.id \in current_team_ids)
        team_counts == ValueCounts(current_team)
        available == SelectSeq(df.rows, LAMBDA r : r.id \notin current_team_ids)
        all_recommendations ==
            Flatten([k \in DOMAIN Positions |->
                PositionRecommendations(team_counts, current_team, available,
                                        Positions[k])])
        top_overall ==
            Take(SortDescStable(all_recommendations,
                     [i \in DOMAIN all_recommendations |->
                         all_recommendations[i].score_improvement]),
                 transfers_available * TopN)
        call == [op |-> "recommend_transfers",
                 current_team_ids |-> current_team_ids,
                 transfers_available |-> transfers_available]
    IN  IF top_overall = <<>>
        THEN call @@ [raised |-> "KeyError"]
        ELSE call @@ [raised |-> "none", recommendations |-> top_overall]

\* lines 189-298, with the value scores present.  An empty list of all
\* recommendations returns an empty frame; otherwise the top
\* transfers_available * 3 are framed, and dropping 'team_count_after' from
\* a frame without rows (transfers_available = 0) raises KeyError.
RecommendTransfers(df, current_team_ids, transfers_available) ==
    LET current_team == SelectSeq(df.rows, LAMBDA r : r.id \in current_team_ids)
        team_counts == ValueCounts(current_team)
        available == SelectSeq(df.rows, LAMBDA r : r.id \notin current_team_ids)
        all_recommendations ==
            Flatten([k \in DOMAIN Positions |->
                PositionRecommendations(team_counts, current_team, available,
                                        Positions[k])])
        top_overall ==
            Take(SortDescStable(all_recommendations,
                     [i \in DOMAIN all_recommendations |->
                         all_recommendations[i].score_improvement]),
                 transfers_available * TopN)
        call == [op |-> "recommend_transfers",
                 current_team_ids |-> current_team_ids,
                 transfers_available |-> transfers_available]
    IN  IF all_recommendations = <<>>
        THEN call @@ [raised |-> "none", recommendations |-> <<>>]
        ELSE IF top_overall = <<>>
        THEN call @@ [raised |-> "KeyError"]
        ELSE call @@ [raised |-> "none", recommendations |-> top_overall]

----------------------------------------------------------------------------
(* FixtureDifficultyEstimator: AdvancedFixturePredictor                    *)

\* a column's sum, which skips the missing values
RECURSIVE ColumnSum(_)
ColumnSum(xs) == IF xs = <<>> THEN 0 ELSE FillNa(Head(xs)) + ColumnSum(Tail(xs))

\* lines 26-51: attack, defense and overall strength of one club, in hundredths
TeamStats(rows, team) ==
    LET team_players == SelectSeq(rows, LAMBDA r : r.team_short = team)
        attackers == SelectSeq(team_players, LAMBDA r : r.position \in {"MID", "FWD"})
        defenders == SelectSeq(team_players, LAMBDA r : r.position \in {"GK", "DEF"})
        attack_strength ==
            ColumnSum([i \in DOMAIN attackers |-> attackers[i].expected_goals])
            + ColumnSum([i \in DOMAIN attackers |-> attackers[i].expected_assists])
            + ColumnSum([i \in DOMAIN attackers |-> attackers[i].total_points])
        defense_strength ==
            ColumnSum([i \in DOMAIN defenders |-> defenders[i].clean_sheets]) * 200
            + ColumnSum([i \in DOMAIN defenders |-> defenders[i].total_points])
            - ColumnSum([i \in DOMAIN defenders |-> defenders[i].goals_conceded]) * 10
    IN  [attack |-> attack_strength,
         defense |-> defense_strength,
         overall |-> attack_strength + defense_strength]

\* lines 20-54: calculate_team_strength over the analyzer's frame
CalculateTeamStrength(df) ==
    [t \in {df.rows[i].team_short : i \in DOMAIN df.rows} |-> TeamStats(df.rows, t)]

\* lines 64-65: the strength assumed for a club that is not in team_strength
DefaultOverall == 10000

\* line 68: HOME_ADVANTAGE, in hundredths
HomeAdvantage == 15

\* probabilities are numerators over ProbDen
ProbDen == 10000000

Overall(strength, team) ==
    IF team \in DOMAIN strength THEN strength[team].overall ELSE DefaultOverall

\* lines 71-74: strength_diff, in ten-thousandths
StrengthDiff(strength, home_team, away_team) ==
    Overall(strength, home_team) * (100 + HomeAdvantage)
    - Overall(strength, away_team) * 100

\* lines 78-93: the bands.  With strength_diff = D / 10^4, D / 500 is 2 * D
\* and D / 200 is 5 * D over ProbDen.
Bands(D) ==
    IF D > 500000
    THEN LET home_win == 6000000 + Min2(2 * D, 2500000)
             draw == 2500000
         IN  [home_win |-> home_win, draw |-> draw,
              away_win |-> ProbDen - home_win - draw]
    ELSE IF D > 0
    THEN LET home_win == 4500000 + 5 * D
             draw == 3000000
         IN  [home_win |-> home_win, draw |-> draw,
              away_win |-> ProbDen - home_win - draw]
    ELSE IF D > -500000
    THEN LET away_win == 3500000 + 5 * Abs(D)
             draw == 3000000
         IN  [home_win |-> ProbDen - away_win - draw, draw |-> draw,
              away_win |-> away_win]
    ELSE LET away_win == 5000000 + Min2(2 * Abs(D), 2500000)
             draw == 2500000
         IN  [home_win |-> ProbDen - away_win - draw, draw |-> draw,
              away_win |-> away_win]

\* max(lo, min(hi, x))
Clamp(lo, hi, x) == Max2(lo, Min2(hi, x))

\* a dictionary whose lower clamps are forgotten
ClampedAboveOnly(p) ==
    [home_win |-> Min2(8500000, p.home_win),
     draw |-> Min2(4000000, p.draw),
     away_win |-> Min2(8500000, p.away_win)]

\* lines 95-99: the returned dictionary
Clamped(p) ==
    [home_win |-> Clamp(500000, 8500000, p.home_win),
     draw |-> Clamp(1500000, 4000000, p.draw),
     away_win |-> Clamp(500000, 8500000, p.away_win)]

\* lines 56-99, with team_strength present
PredictMatchOutcome(strength, home_team, away_team) ==
    Clamped(Bands(StrengthDiff(strength, home_team, away_team)))

----------------------------------------------------------------------------
(* The operations, as actions on the analyzer and the predictor            *)

Returned(op) == [op |-> op, raised |-> "none"]

Raised(op, error) == [op |-> op, raised |-> error]

\* FPLPlayerAnalyzer.load_data: the frame is replaced by what the data source
\* serves; the predictor's team_strength is left as it is
load_data ==
    /\ players_df' = [loaded |-> TRUE, has_value_score |-> FALSE, rows |-> upstream]
    /\ fixtures_df' = [loaded |-> TRUE, rows |-> fixtures]
    /\ result' = Returned("load_data")
    /\ UNCHANGED <<upstream, fixtures, team_strength, app>>

\* FPLPlayerAnalyzer.calculate_value_score
calculate_value_score ==
    \E out \in {CalculateValueScore(players_df)} :
        /\ players_df' = out.df
        /\ result' = [op |-> "calculate_value_score", raised |-> out.raised,
                      key |-> out.key]
        /\ UNCHANGED <<upstream, fixtures, fixtures_df, team_strength, app>>

\* FPLPlayerAnalyzer.build_optimal_squad(budget)
build_optimal_squad(budget) ==
    \E scored \in {EnsureScored(players_df)} :
        /\ players_df' = scored.df
        /\ IF scored.raised # "none"
           THEN result' = [op |-> "build_optimal_squad", raised |-> scored.raised,
                                  budget |-> budget]
           ELSE \E orders \in SquadOrders(scored.df.rows) :
                    result' = BuildOptimalSquad(scored.df, budget, orders)
        /\ UNCHANGED <<upstream, fixtures, fixtures_df, team_strength, app>>

\* FPLPlayerAnalyzer.recommend_transfers(current_team_ids, transfers_available)
recommend_transfers(current_team_ids, transfers_available) ==
    \E scored \in {EnsureScored(players_df)} :
        /\ players_df' = scored.df
        /\ result' =
               IF scored.raised # "none"
               THEN Raised("recommend_transfers", scored.raised)
               ELSE RecommendTransfers(scored.df, current_team_ids, transfers_available)
        /\ UNCHANGED <<upstream, fixtures, fixtures_df, team_strength, app>>

\* AdvancedFixturePredictor.predict_match_outcome(home_team, away_team):
\* an empty team_strength is computed first, from the analyzer's frame as it
\* is now (None cannot be indexed)
predict_match_outcome(home_team, away_team) ==
    /\ UNCHANGED <<upstream, fixtures, fixtures_df, players_df, app>>
    /\ IF team_strength = <<>> /\ ~players_df.loaded
       THEN /\ team_strength' = team_strength
            /\ result' = Raised("predict_match_outcome", "TypeError")
       ELSE LET strength == IF team_strength = <<>>
                            THEN CalculateTeamStrength(players_df)
                            ELSE team_strength
            IN  /\ team_strength' = strength
                /\ result' = [op |-> "predict_match_outcome", raised |-> "none",
                              home_team |-> home_team, away_team |-> away_team,
                              outcome |-> PredictMatchOutcome(strength, home_team,
                                                              away_team)]

----------------------------------------------------------------------------
(* The assistant and the web application: loading the manager's team       *)

\* one request to the API: the payload expected, no response, or a JSON
\* body without the expected keys (such as {"detail": "Not found."})
FetchOutcomes == {"ok", "network_error", "malformed"}

\* what a failed request makes the code that fetches and indexes it raise
FetchError(outcome) ==
    IF outcome = "network_error" THEN "ConnectionError" ELSE "KeyError"

\* entry/{manager_id}/ as the API serves it (the fields the code reads; rank
\* and transfers are read the way the points are)
ManagerData == [manager_name |-> "Sam Lee", summary_overall_points |-> 512]

\* the points of the current gameweek in entry/{manager_id}/history/
HistoryData == [points |-> 61]

\* fpl_main_app.py lines 28-29 and 35-40: load_data, calculate_value_score and
\* the saved team read from the file, when `bootstrap` is what the API
\* answers
Initialize(bootstrap) ==
    LET loaded == [loaded |-> TRUE, has_value_score |-> FALSE, rows |-> upstream]
        served == [loaded |-> TRUE, rows |-> fixtures]
        scored == CalculateValueScore(loaded)
    IN  IF bootstrap # "ok"
        THEN [raised |-> FetchError(bootstrap), players_df |-> players_df,
              fixtures_df |-> fixtures_df, my_team |-> my_team]
        ELSE IF scored.raised # "none"
        THEN [raised |-> scored.raised, players_df |-> loaded,
              fixtures_df |-> served, my_team |-> my_team]
        ELSE [raised |-> "none", players_df |-> scored.df, fixtures_df |-> served,
              my_team |-> IF my_team_file.saved THEN my_team_file ELSE my_team]

\* FPLAssistant.initialize
initialize(bootstrap) ==
    \E done \in {Initialize(bootstrap)} :
        /\ players_df' = done.players_df
        /\ fixtures_df' = done.fixtures_df
        /\ my_team' = done.my_team
        /\ result' = Raised("initialize", done.raised)
        /\ UNCHANGED <<upstream, fixtures, team_strength, assistant, my_team_file>>

\* fpl_main_app.py lines 120-122: the squad members the frame knows
TeamDetails(df, player_ids) ==
    SelectSeq([i \in DOMAIN df.rows |-> df.rows[i].id],
              LAMBDA id : id \in Range(player_ids))

\* opening my_fpl_team.json for writing: done, or refused by the file system
WriteOutcomes == {"ok", "OSError"}

\* FPLAssistant.load_my_team_from_fpl(manager_id): `fetched` is what the API
\* answers to each request, `picks` the identifiers it serves, `written` what
\* becomes of the write of the file.  my_team is assigned before the file is
\* opened.  The
\* gameweek is looked up outside the try block; whatever is raised inside it
\* is printed, and the method returns None as it does after a success.
load_my_team_from_fpl(manager_id, fetched, picks, written) ==
    IF fetched.bootstrap # "ok"
    THEN /\ result' = [op |-> "load_my_team_from_fpl",
                       raised |-> FetchError(fetched.bootstrap),
                       manager_id |-> manager_id, fetched |-> fetched,
                       written |-> written]
         /\ UNCHANGED <<upstream, fixtures, fixtures_df, players_df, team_strength, app>>
    ELSE /\ result' = [op |-> "load_my_team_from_fpl", raised |-> "none",
                       manager_id |-> manager_id, fetched |-> fetched,
                       written |-> written]
         /\ IF \/ fetched.manager # "ok"
               \/ fetched.picks # "ok"
               \/ fetched.history # "ok"
               \/ ~players_df.loaded
            THEN UNCHANGED <<my_team, my_team_file>>
            ELSE /\ my_team' = [saved |-> TRUE, player_ids |-> picks,
                                players |-> TeamDetails(players_df, picks),
                                manager_id |-> manager_id,
                                manager_name |-> ManagerData.manager_name,
                                total_points |-> ManagerData.summary_overall_points,
                                gameweek_points |-> HistoryData.points]
                 /\ my_team_file' = IF written = "ok" THEN my_team'
                                                      ELSE my_team_file
         /\ UNCHANGED <<upstream, fixtures, fixtures_df, players_df, team_strength,
                      assistant>>

\* app.py lines 22-37: get_assistant.  The global is assigned before
\* initialize() runs, so a failed initialize leaves it set.
GetAssistant(bootstrap) ==
    IF assistant # "None"
    THEN [raised |-> "none", assistant |-> assistant, players_df |-> players_df,
          fixtures_df |-> fixtures_df, my_team |-> my_team]
    ELSE LET done == Initialize(bootstrap)
         IN  [raised |-> done.raised,
              assistant |-> IF done.raised = "none" THEN "ready" ELSE "partial",
              players_df |-> done.players_df, fixtures_df |-> done.fixtures_df,
              my_team |-> done.my_team]

\* a JSON response of the web application
Response(status, success) == [status |-> status, success |-> success]

\* app.py lines 61-120: POST /api/load-team.  An exception anywhere becomes
\* a 500 response; a failed history request becomes 0 gameweek points and
\* a manager payload without its keys becomes an empty name and 0 points.
load_team(manager_id, fetched, picks, written) ==
    \E asst \in {GetAssistant(fetched.bootstrap)} :
        LET call == [op |-> "load_team", raised |-> "none",
                     manager_id |-> manager_id, fetched |-> fetched,
                     written |-> written]
            team == [saved |-> TRUE, player_ids |-> picks,
                     manager_id |-> manager_id,
                     manager_name |-> IF fetched.manager = "ok"
                                      THEN ManagerData.manager_name ELSE " ",
                     total_points |-> IF fetched.manager = "ok"
                                      THEN ManagerData.summary_overall_points ELSE 0,
                     gameweek_points |-> IF fetched.history = "ok"
                                         THEN HistoryData.points ELSE 0]
        IN  IF manager_id = 0
            THEN /\ result' = call @@ [response |-> Response(400, FALSE)]
                 /\ UNCHANGED <<upstream, fixtures, fixtures_df, players_df, team_strength, app>>
            ELSE /\ assistant' = asst.assistant
                 /\ players_df' = asst.players_df
                 /\ fixtures_df' = asst.fixtures_df
                 /\ UNCHANGED <<upstream, fixtures, team_strength>>
                 /\ IF \/ asst.raised # "none"
                       \/ fetched.bootstrap # "ok"
                       \/ fetched.manager = "network_error"
                       \/ fetched.picks # "ok"
                    THEN /\ result' = call @@ [response |-> Response(500, FALSE)]
                         /\ my_team' = asst.my_team
                         /\ UNCHANGED my_team_file
                    ELSE IF written # "ok"
                    THEN /\ result' = call @@ [response |-> Response(500, FALSE)]
                         /\ my_team' = team
                         /\ UNCHANGED my_team_file
                    ELSE /\ result' = call @@ [response |-> Response(200, TRUE) @@
                                                            [team |-> team]]
                         /\ my_team' = team
                         /\ my_team_file' = team

----------------------------------------------------------------------------
(* The data the source may serve                                           *)

\* one row of bootstrap-static's elements, as get_all_players_df shapes it
Row(id, team, position, price, status, chance, minutes, m) ==
    [id |-> id, team_short |-> team, position |-> position, price |-> price,
     status |-> status, chance_of_playing_next_round |-> chance,
     selected_by_percent |-> 0, minutes |-> minutes, total_points |-> m.total_points, form |-> m.form,
     points_per_game |-> m.points_per_game, ict_index |-> m.ict_index,
     expected_goals |-> m.expected_goals, expected_assists |-> m.expected_assists,
     clean_sheets |-> m.clean_sheets, goals_conceded |-> m.goals_conceded]

\* the metrics of a player who has done nothing
NoStats ==
    [total_points |-> 0, form |-> 0, points_per_game |-> 0, ict_index |-> 0,
     expected_goals |-> 0, expected_assists |-> 0, clean_sheets |-> 0,
     goals_conceded |-> 0]

\* my_team = None; no file my_fpl_team.json
NoTeam == [saved |-> FALSE]

\* a club no player of the frame belongs to
UnknownTeam == "???"

TeamsOf(rows) == {rows[i].team_short : i \in DOMAIN rows}

InitWithFixtures(pools, seasons) ==
    /\ upstream \in pools
    /\ fixtures \in seasons
    /\ fixtures_df = [loaded |-> FALSE, rows |-> <<>>]
    /\ players_df = None
    /\ team_strength = <<>>
    /\ result = Returned("__init__")
    /\ assistant = "None"
    /\ my_team = NoTeam
    /\ my_team_file = NoTeam

\* one row of fixtures/, as get_fixtures_df shapes it
RatedFixture(event, home_team, away_team, finished, h, a) ==
    [event |-> event, home_team |-> home_team, away_team |-> away_team,
     finished |-> finished, team_h_difficulty |-> h, team_a_difficulty |-> a]

\* a fixture the API rates 3 for both sides
Fixture(event, home_team, away_team, finished) ==
    RatedFixture(event, home_team, away_team, finished, 3, 3)

\* the source serves a single fixture, already played
InitWith(pools) == InitWithFixtures(pools, {<<Fixture(1, "ARS", "LIV", TRUE)>>})

----------------------------------------------------------------------------
(* Spec: the analyzer and the predictor over small leagues of two clubs    *)

\* the number of players of a small league
NumPlayers == 2

Clubs == {"ARS", "LIV"}

\* three seasons: a poor one whose string metrics are missing, a fair one
\* and a strong one
SeasonStats ==
    {[NoStats EXCEPT !.total_points = 20, !.form = NaN, !.points_per_game = NaN,
                     !.ict_index = NaN, !.expected_goals = NaN,
                     !.expected_assists = NaN, !.goals_conceded = 40],
     [NoStats EXCEPT !.total_points = 50, !.form = 3, !.points_per_game = 2,
                     !.clean_sheets = 10, !.expected_goals = 2],
     [NoStats EXCEPT !.total_points = 90, !.form = 6, !.points_per_game = 5,
                     !.ict_index = 4, !.clean_sheets = 30, !.expected_goals = 4,
                     !.expected_assists = 1]}

LeaguePlayers(id) ==
    {Row(id, team, position, 50, "a", 100, 90, m) :
        team \in Clubs, position \in {"DEF", "FWD"}, m \in SeasonStats}

RECURSIVE Leagues(_)
Leagues(n) ==
    IF n = 0 THEN {<<>>}
    ELSE {Append(rest, r) : rest \in Leagues(n - 1), r \in LeaguePlayers(n)}

Init == InitWith(Leagues(NumPlayers))

Next ==
    \/ load_data
    \/ calculate_value_score
    \/ \E budget \in {50, 1000} : build_optimal_squad(budget)
    \/ \E ids \in {{1}} : recommend_transfers(ids, 1)
    \/ \E home_team, away_team \in Clubs \cup {UnknownTeam} :
           predict_match_outcome(home_team, away_team)

Spec == Init /\ [][Next]_vars

----------------------------------------------------------------------------
(* SpecScore: calculate_value_score over every small frame                 *)

\* the number of rows of a scored frame
NumScored == 3

\* status and chance_of_playing_next_round as the API pairs them
Availability == {<<"a", 100>>, <<"a", NaN>>, <<"d", 75>>, <<"d", 100>>, <<"i", 0>>}

ScorePlayers(id) ==
    {Row(id, "ARS", "MID", 50, av[1], av[2], 90, m) :
        av \in Availability, m \in SeasonStats}
    \cup {Row(id, "ARS", "MID", 45, "a", NaN, 0, NoStats)}

RECURSIVE ScoreFrames(_)
ScoreFrames(n) ==
    IF n = 0 THEN {<<>>}
    ELSE {Append(rest, r) : rest \in ScoreFrames(n - 1), r \in ScorePlayers(n)}

InitScore == InitWith(ScoreFrames(NumScored))

NextScore == load_data \/ calculate_value_score

SpecScore == InitScore /\ [][NextScore]_vars

----------------------------------------------------------------------------
(* SpecSquad: build_optimal_squad over small pools of goalkeepers and      *)
(* defenders of two clubs                                                  *)

\* the number of players of a pool
NumCandidates == 4

\* the form of the i-th of n players, by pattern: all scores distinct and
\* descending in the row order, or the same but the first two equal
FormPatterns == {"descending", "tied"}

PatternForm(pattern, n, i) ==
    IF pattern = "tied" /\ i = 1 THEN n - 1 ELSE n - i + 1

\* the pools of n players: the first gk of them goalkeepers, the others
\* defenders; club and price free per player (the first player's club is
\* fixed: the clubs are interchangeable); the player `out` (0: none) injured
RECURSIVE SquadRows(_, _, _, _, _)
SquadRows(n, k, gk, pattern, out) ==
    IF k = 0 THEN {<<>>}
    ELSE {Append(rest,
                 Row(k, team, IF k <= gk THEN "GK" ELSE "DEF", price,
                     IF k = out THEN "i" ELSE "a", IF k = out THEN 0 ELSE 100, 90,
                     [NoStats EXCEPT !.form = PatternForm(pattern, n, k)])) :
            rest \in SquadRows(n, k - 1, gk, pattern, out),
            team \in IF k = 1 THEN {"ARS"} ELSE Clubs, price \in {45, 60}}

SquadPools(n) ==
    UNION {SquadRows(n, n, gk, pattern, out) :
              gk \in {0, 2}, pattern \in FormPatterns, out \in {0, 1}}

SquadBudgets == {40, 100, 150, 1000}

InitSquad == InitWith(SquadPools(NumCandidates))

NextSquad ==
    \/ load_data
    \/ \E budget \in SquadBudgets : build_optimal_squad(budget)

SpecSquad == InitSquad /\ [][NextSquad]_vars

----------------------------------------------------------------------------
(* SpecTransfers: recommend_transfers for a squad of 15 and the players    *)
(* outside it                                                              *)

\* the number of players outside the squad
NumIncoming == 2

\* the squad: players 1..15, 2 GK, 5 DEF, 5 MID, 3 FWD
SquadSize == 15

SquadPosition(i) ==
    IF i <= 2 THEN "GK" ELSE IF i <= 7 THEN "DEF" ELSE IF i <= 12 THEN "MID" ELSE "FWD"

\* the squad's clubs: three of ARS and of LIV, two of CHE, MCI and TOT, one
\* of AVL, NEW and EVE
SquadClub(i) ==
    <<"ARS", "LIV", "CHE", "ARS", "LIV", "CHE", "ARS", "LIV",
      "MCI", "MCI", "TOT", "TOT", "AVL", "NEW", "EVE">>[i]

\* the squad member i; the member `unused` (0: none) has played no minutes
SquadMember(i, unused) ==
    Row(i, SquadClub(i), SquadPosition(i), 50, "a", 100,
        IF i = unused THEN 0 ELSE 90,
        [NoStats EXCEPT !.form = 2 + (i % 3)])

\* a player outside the squad: a defender of a full club, of a club with
\* two members or of a club with none, at the edge of the price window or
\* beyond it, of middling or high form; a doubtful defender; a midfielder
IncomingPlayers(id) ==
    {Row(id, team, "DEF", 35, "a", 100, 90, [NoStats EXCEPT !.form = form]) :
        team \in {"ARS", "CHE", "BOU"}, form \in {3, 5}}
    \cup {Row(id, "BOU", "DEF", 70, "a", 100, 90, [NoStats EXCEPT !.form = 5]),
          Row(id, "BOU", "DEF", 50, "d", 75, 90, [NoStats EXCEPT !.form = 5]),
          Row(id, "ARS", "MID", 65, "a", 100, 90, [NoStats EXCEPT !.form = 5])}

RECURSIVE TransferPools(_, _)
TransferPools(n, unused) ==
    IF n = 0 THEN {[i \in 1..SquadSize |-> SquadMember(i, unused)]}
    ELSE {Append(rest, r) : rest \in TransferPools(n - 1, unused),
                            r \in IncomingPlayers(SquadSize + n)}

\* the squads asked about: the players 1..15, and the same with the defender
\* 3 replaced by the first player outside
CurrentTeams == {1..SquadSize, ((1..SquadSize) \ {3}) \cup {SquadSize + 1}}

InitTransfers ==
    InitWith(UNION {TransferPools(NumIncoming, unused) : unused \in {0, 1}})

NextTransfers ==
    \/ load_data
    \/ \E ids \in CurrentTeams, transfers_available \in 0..2 :
           recommend_transfers(ids, transfers_available)

SpecTransfers == InitTransfers /\ [][NextTransfers]_vars

----------------------------------------------------------------------------
(* SpecQuota: build_optimal_squad with a budget that covers every player,  *)
(* over pools with the same number of players at every position            *)

\* the most players a position has
MaxPerPosition == 6

ClubCodes ==
    <<"ARS", "AVL", "BOU", "BRE", "BHA", "BUR", "CHE", "CRY", "EVE", "FUL",
      "LEE", "LIV", "MCI", "MUN", "NEW", "NFO", "SUN", "TOT", "WHU", "WOL">>

\* 4n players, n per position, spread over the first k clubs in turn, their
\* form rising or falling with the id; the player `out` (0: none) is injured
QuotaRows(n, k, pattern, out) ==
    [i \in 1..(4 * n) |->
        Row(i, ClubCodes[((i - 1) % k) + 1], Positions[((i - 1) \div n) + 1], 50,
            IF i = out THEN "i" ELSE "a", IF i = out THEN 0 ELSE 100, 90,
            [NoStats EXCEPT !.form = IF pattern = "rising" THEN i ELSE 4 * n + 1 - i])]

QuotaPools ==
    {QuotaRows(n, k, pattern, out) :
        n \in 4..MaxPerPosition, k \in {1, 3, 7, 8, 20},
        pattern \in {"rising", "falling"}, out \in {0, 1}}
    \cup {QuotaRows(n, k, "falling", n + 1) : n \in 4..MaxPerPosition, k \in {8, 20}}

\* the price of every player of the pool together
PoolPrice(rows) == SumSeq([i \in DOMAIN rows |-> rows[i].price])

InitQuota == InitWith(QuotaPools)

NextQuota ==
    \/ load_data
    \/ \E budget \in {PoolPrice(upstream), 500} : build_optimal_squad(budget)

SpecQuota == InitQuota /\ [][NextQuota]_vars

----------------------------------------------------------------------------
(* SpecScenario: build_optimal_squad with budget 100 over as many          *)
(* candidates per position, each priced 5.0                                *)

\* the candidates of each position
CandidatesPerPosition == 20

\* the club of the candidate j of the position number p: the clubs taken in
\* turn with a stride, or in blocks of three, over the first c clubs, and
\* rotated from one position to the next
ScenarioClub(layout, c, rot, p, j) ==
    LET turn == IF layout = "blocks" THEN (j - 1) \div 3
                ELSE IF layout = "stride" THEN 3 * (j - 1)
                ELSE j - 1
    IN  ClubCodes[((turn + rot * (p - 1)) % c) + 1]

ScenarioRows(layout, c, rot, pattern) ==
    [i \in 1..(4 * CandidatesPerPosition) |->
        LET p == ((i - 1) \div CandidatesPerPosition) + 1
            j == ((i - 1) % CandidatesPerPosition) + 1
        IN  Row(i, ScenarioClub(layout, c, rot, p, j), Positions[p], 50, "a", 100, 90,
                [NoStats EXCEPT !.form = IF pattern = "rising" THEN j
                                         ELSE CandidatesPerPosition + 1 - j])]

\* no club has more than 3 candidates at any position
ClubsSpread(rows) ==
    \A i \in DOMAIN rows :
        Cardinality({j \in DOMAIN rows : /\ rows[j].position = rows[i].position
                                         /\ rows[j].team_short = rows[i].team_short})
            <= 3

ScenarioPools ==
    {rows \in {ScenarioRows(layout, c, rot, pattern) :
                   layout \in {"turn", "stride", "blocks"}, c \in {7, 8, 10, 20},
                   rot \in 0..2, pattern \in {"rising", "falling"}} :
        ClubsSpread(rows)}

InitScenario == InitWith(ScenarioPools)

NextScenario ==
    \/ load_data
    \/ calculate_value_score
    \/ build_optimal_squad(1000)

SpecScenario == InitScenario /\ [][NextScenario]_vars

----------------------------------------------------------------------------
(* SpecColumns: scoring a payload whose elements lack a column             *)

\* lines 84-85 of get_all_players_df: only the columns the payload has are
\* selected, so a row comes without the column the payload lacks
Without(r, column) == [f \in DOMAIN r \ {column} |-> r[f]]

\* the metric columns a payload may lack ("": none)
DroppedColumns ==
    {"", "form", "points_per_game", "ict_index", "expected_goals",
     "expected_assists", "total_points", "chance_of_playing_next_round"}

ColumnPools ==
    {[i \in DOMAIN rows |-> Without(rows[i], column)] :
        rows \in Leagues(NumPlayers), column \in DroppedColumns}

InitColumns == InitWith(ColumnPools)

NextColumns ==
    \/ load_data
    \/ calculate_value_score
    \/ build_optimal_squad(1000)

SpecColumns == InitColumns /\ [][NextColumns]_vars

----------------------------------------------------------------------------
(* SpecSnapshot: the predictor while the data source moves on              *)

\* bootstrap-static serves a new snapshot
publish(rows) ==
    /\ upstream' = rows
    /\ upstream' # upstream
    /\ UNCHANGED <<fixtures, fixtures_df, players_df, team_strength, result, app>>

\* the snapshots of one league: its players stay at their clubs, an ARS
\* forward, a LIV defender and so on in turn, and their seasons vary
RECURSIVE Snapshots(_)
Snapshots(n) ==
    IF n = 0 THEN {<<>>}
    ELSE {Append(rest, Row(n, IF n % 2 = 1 THEN "ARS" ELSE "LIV",
                           IF n % 2 = 1 THEN "FWD" ELSE "DEF", 50, "a", 100, 90, m)) :
             rest \in Snapshots(n - 1), m \in SeasonStats}

InitSnapshot == InitWith(Snapshots(NumPlayers))

NextSnapshot ==
    \/ \E rows \in Snapshots(NumPlayers) : publish(rows)
    \/ load_data
    \/ \E home_team, away_team \in Clubs : predict_match_outcome(home_team, away_team)

SpecSnapshot == InitSnapshot /\ [][NextSnapshot]_vars

----------------------------------------------------------------------------
(* SpecTeamLoad: loading the manager's team while requests to the API fail *)

\* one league, every player in a strong season
TeamLoadPools ==
    {rows \in Snapshots(NumPlayers) :
        \A i \in DOMAIN rows : rows[i].total_points = 90}

\* what the API answers to the four requests of a team load
Fetches ==
    [bootstrap : FetchOutcomes, manager : FetchOutcomes, picks : FetchOutcomes,
     history : FetchOutcomes]

\* the picks the API serves
PickLists == {<<1, 2>>, <<2>>}

InitTeamLoad == InitWith(TeamLoadPools)

NextTeamLoad ==
    \/ \E bootstrap \in FetchOutcomes : initialize(bootstrap)
    \/ \E fetched \in Fetches, picks \in PickLists :
           load_my_team_from_fpl(42, fetched, picks, "ok")
    \/ \E manager_id \in {0, 42}, fetched \in Fetches, picks \in PickLists :
           load_team(manager_id, fetched, picks, "ok")

SpecTeamLoad == InitTeamLoad /\ [][NextTeamLoad]_vars

----------------------------------------------------------------------------
(* SpecFixture: the predictor over two clubs of overall strength 80, 90,   *)
(* 100 or 120                                                              *)

\* a league of one ARS and one LIV defender; 40, 45, 50 or 60 clean sheets
\* give the club an overall strength of 80, 90, 100 or 120
FixtureLeagues ==
    {<<Row(1, "ARS", "DEF", 50, "a", 100, 90, [NoStats EXCEPT !.clean_sheets = h]),
       Row(2, "LIV", "DEF", 50, "a", 100, 90, [NoStats EXCEPT !.clean_sheets = a])>> :
        h \in {40, 45, 50, 60}, a \in {40, 45, 50, 60}}

InitFixture == InitWith(FixtureLeagues)

NextFixture ==
    \/ load_data
    \/ \E home_team, away_team \in Clubs \cup {UnknownTeam} :
           predict_match_outcome(home_team, away_team)

SpecFixture == InitFixture /\ [][NextFixture]_vars

----------------------------------------------------------------------------
(* Properties                                                              *)

SquadReturned == result.op = "build_optimal_squad" /\ result.raised = "none"

SquadIds == {result.squad[k].id : k \in DOMAIN result.squad}

\* the squad's members of a club, and of a position
CountTeam(squad, team) == Cardinality({k \in DOMAIN squad : squad[k].team_short = team})

CountPosition(squad, position) ==
    Cardinality({k \in DOMAIN squad : squad[k].position = position})

\* an available player the returned squad left out although its position's
\* quota is not filled
LeftOut(r) ==
    /\ r.status = "a"
    /\ r.minutes > 0
    /\ r.id \notin SquadIds
    /\ CountPosition(result.squad, r.position) < Formation[r.position]

\* C1: a squad build_optimal_squad returns never holds more than 3 players
\* of the same club.
C1_AtMostThreePerClub ==
    SquadReturned =>
        \A k \in DOMAIN result.squad :
            CountTeam(result.squad, result.squad[k].team_short) <= 3

\* C1 witness: a squad is returned with 3 players of a club, and a further
\* affordable player of that club was left out of an unfilled position.
C1_CapActed ==
    /\ SquadReturned
    /\ \E i \in DOMAIN upstream :
           /\ LeftOut(upstream[i])
           /\ CountTeam(result.squad, upstream[i].team_short) = 3
           /\ upstream[i].price <= result.budget - result.total_cost

\* C2: the total price of a squad build_optimal_squad returns never exceeds
\* the budget passed in.
C2_WithinBudget ==
    SquadReturned =>
        SumSeq([k \in DOMAIN result.squad |-> result.squad[k].price])
            <= result.budget

\* C2 witness: a squad is returned, and a player whose club is not full was
\* left out of an unfilled position because the price was above what remained.
C2_BudgetActed ==
    /\ SquadReturned
    /\ \E i \in DOMAIN upstream :
           /\ LeftOut(upstream[i])
           /\ CountTeam(result.squad, upstream[i].team_short) < 3
           /\ upstream[i].price > result.budget - result.total_cost

OutcomeReturned == result.op = "predict_match_outcome" /\ result.raised = "none"

\* C7: the home-win, draw and away-win probabilities predict_match_outcome
\* returns sum to 1.
C7_OutcomeSumsToOne ==
    OutcomeReturned =>
        result.outcome.home_win + result.outcome.draw + result.outcome.away_win
            = ProbDen

\* C8: predict_match_outcome returns home_win and away_win within
\* [0.05, 0.85] and draw within [0.15, 0.40].
C8_OutcomeWithinClamps ==
    OutcomeReturned =>
        /\ 500000 <= result.outcome.home_win /\ result.outcome.home_win <= 8500000
        /\ 500000 <= result.outcome.away_win /\ result.outcome.away_win <= 8500000
        /\ 1500000 <= result.outcome.draw /\ result.outcome.draw <= 4000000

\* C8 witness: an outcome is returned for a pair of clubs whose band formula
\* puts the away win below 0.05.
C8_ClampActed ==
    /\ OutcomeReturned
    /\ Bands(StrengthDiff(team_strength, result.home_team, result.away_team)).away_win
           < 500000

Scored == players_df.loaded /\ players_df.has_value_score

BothPenalties(r) == r.chance_of_playing_next_round < 100 /\ r.status # "a"

\* C9: the composite of every scored player lies in [0, 1] before the
\* penalties, and the value score of a player who takes both penalties (chance
\* below 100, status not available) lies in [0, 0.15].
C9_ScoreWithinRange ==
    Scored =>
        \A i \in DOMAIN players_df.rows :
            LET r == players_df.rows[i]
                composite == Composite(r.normalized, players_df.scale)
            IN  /\ 0 <= composite
                /\ composite <= CompositeDen(players_df.scale)
                /\ BothPenalties(r) =>
                       /\ 0 <= r.value_score
                       /\ r.value_score * 20 <= 3 * players_df.score_den

\* C9 witness: a scored frame in which a player of composite 1 takes both
\* penalties, beside a player of composite strictly between 0 and 1.
C9_TopPlayerPenalised ==
    /\ Scored
    /\ \E i, j \in DOMAIN players_df.rows :
           /\ BothPenalties(players_df.rows[i])
           /\ Composite(players_df.rows[i].normalized, players_df.scale)
                  = CompositeDen(players_df.scale)
           /\ Composite(players_df.rows[j].normalized, players_df.scale) > 0
           /\ Composite(players_df.rows[j].normalized, players_df.scale)
                  < CompositeDen(players_df.scale)

\* the same players with the same value scores
SameScores(df1, df2) ==
    /\ Len(df1.rows) = Len(df2.rows)
    /\ df1.score_den = df2.score_den
    /\ \A i \in DOMAIN df1.rows :
           /\ df1.rows[i].id = df2.rows[i].id
           /\ df1.rows[i].value_score = df2.rows[i].value_score

\* C10: calculate_value_score run on a frame that a run has just scored
\* leaves every player's value score, and the set of scored players, as the
\* first run left them.
C10_SecondRunSameScores ==
    [][(Scored /\ result'.op = "calculate_value_score")
           => SameScores(players_df, players_df')]_vars

\* C10 witness: a scoring has returned on a frame with a penalised player
\* whose value score is positive.
C10_PenalisedScored ==
    /\ Scored
    /\ result.op = "calculate_value_score"
    /\ result.raised = "none"
    /\ \E i \in DOMAIN players_df.rows :
           /\ PenaltyChance(players_df.rows[i]) = 1
           /\ players_df.rows[i].value_score > 0

RecommendationsReturned ==
    result.op = "recommend_transfers" /\ result.raised = "none"

\* the row of the player id in the data the source serves
Player(id) == upstream[CHOOSE i \in DOMAIN upstream : upstream[i].id = id]

\* the members of a club in the squad ids once `out` has left and `in` has come
CountAfterSwap(ids, out, in, team) ==
    Cardinality({id \in (ids \ {out}) \cup {in} : Player(id).team_short = team})

\* C3: for a squad of 15 identifiers, swapping the outgoing player of a
\* recommendation for its incoming player leaves the incoming player's club
\* with at most 3 members in the squad.
C3_SwapKeepsClubCap ==
    (RecommendationsReturned /\ Cardinality(result.current_team_ids) = 15) =>
        \A k \in DOMAIN result.recommendations :
            LET rec == result.recommendations[k]
            IN  CountAfterSwap(result.current_team_ids, rec.out, rec.in,
                               rec.in_team) <= 3

\* the value score of the player id in the analyzer's frame
ScoreOf(id) ==
    players_df.rows[CHOOSE i \in DOMAIN players_df.rows :
                        players_df.rows[i].id = id].value_score

\* C4: every recommendation's incoming player has a value score strictly
\* greater than its outgoing player's; the score improvement is positive.
C4_StrictImprovement ==
    RecommendationsReturned =>
        \A k \in DOMAIN result.recommendations :
            LET rec == result.recommendations[k]
            IN  /\ rec.score_improvement > 0
                /\ rec.in_score > rec.out_score
                /\ Scored => /\ ScoreOf(rec.in) = rec.in_score
                             /\ ScoreOf(rec.out) = rec.out_score

\* C4 witness: recommendations are returned while an available defender of
\* a club without squad members, inside the price window, scores the same as
\* a squad defender and is not recommended for that defender.
C4_EqualScoreNotProposed ==
    /\ RecommendationsReturned
    /\ Scored
    /\ result.recommendations # <<>>
    /\ result.transfers_available = 2
    /\ \E i, j \in DOMAIN players_df.rows :
           LET out == players_df.rows[i]
               in == players_df.rows[j]
           IN  /\ out.id \in result.current_team_ids
               /\ in.id \notin result.current_team_ids
               /\ in.position = out.position
               /\ in.status = "a"
               /\ in.team_short = "BOU"
               /\ Abs(in.price - out.price) <= 15
               /\ in.value_score = out.value_score
               /\ \A k \in DOMAIN result.recommendations :
                      ~(result.recommendations[k].in = in.id
                        /\ result.recommendations[k].out = out.id)

\* the rows of a frame that build_optimal_squad may select: status 'a'
Eligible(rows, position) ==
    {i \in DOMAIN rows : rows[i].position = position /\ rows[i].status = "a"}

\* every quota of the formation is filled exactly
QuotasFilled(squad) ==
    \A k \in DOMAIN Positions :
        CountPosition(squad, Positions[k]) = Formation[Positions[k]]

\* build_optimal_squad has run on loaded data with a budget that covers the
\* price of every player
BuiltUnlimited ==
    /\ result.op = "build_optimal_squad"
    /\ players_df.loaded
    /\ result.budget >= PoolPrice(upstream)

\* C5 as stated: with an unlimited budget and at least 15 available players,
\* the same number at every position, every quota is filled exactly.  The
\* players all have minutes and every position has its quota of them, so
\* that only the spread over the clubs is left open.
C5_EvenPoolFillsQuotas ==
    (/\ BuiltUnlimited
     /\ \A i \in DOMAIN upstream : upstream[i].minutes > 0
     /\ \A k \in DOMAIN Positions :
            Cardinality(Eligible(upstream, Positions[k]))
                = Cardinality(Eligible(upstream, "GK"))
     /\ Cardinality(Eligible(upstream, "GK")) >= 5)
        => SquadReturned /\ QuotasFilled(result.squad)

\* C5 amended: with an unlimited budget, at least as many available players
\* with minutes at every position as its quota, and no club with more than
\* 3 available players, every quota is filled exactly: 2 GK, 5 DEF, 5 MID,
\* 3 FWD.
C5_QuotasFilled ==
    (/\ BuiltUnlimited
     /\ \A i \in DOMAIN upstream : upstream[i].minutes > 0
     /\ \A k \in DOMAIN Positions :
            Cardinality(Eligible(upstream, Positions[k])) >= Formation[Positions[k]]
     /\ \A i \in DOMAIN upstream :
            Cardinality({j \in DOMAIN upstream :
                            /\ upstream[j].status = "a"
                            /\ upstream[j].team_short = upstream[i].team_short}) <= 3)
        => /\ SquadReturned
           /\ QuotasFilled(result.squad)
           /\ Len(result.squad) = 15

\* C5 witness: every quota is filled from a pool that has more available
\* players than the quota at every position, no club with more than 3.
C5_QuotaStopped ==
    /\ BuiltUnlimited
    /\ SquadReturned
    /\ QuotasFilled(result.squad)
    /\ \A k \in DOMAIN Positions :
           Cardinality(Eligible(upstream, Positions[k])) > Formation[Positions[k]]
    /\ \A i \in DOMAIN upstream :
           Cardinality({j \in DOMAIN upstream :
                           /\ upstream[j].status = "a"
                           /\ upstream[j].team_short = upstream[i].team_short}) <= 3

\* the scenario: every position has CandidatesPerPosition available
\* candidates with minutes, each priced 5.0, of distinct scores, no club with
\* more than 3 of them at a position
ScenarioFrame(rows) ==
    /\ \A k \in DOMAIN Positions :
           Cardinality(Eligible(rows, Positions[k])) = CandidatesPerPosition
    /\ \A i \in DOMAIN rows : rows[i].status = "a" /\ rows[i].price = 50
    /\ \A i, j \in DOMAIN rows :
           (i # j /\ rows[i].position = rows[j].position)
               => rows[i].value_score # rows[j].value_score
    /\ ClubsSpread(rows)

\* C6: with budget 100 over the scenario's candidates, build_optimal_squad
\* returns exactly 15 players, 2 GK, 5 DEF, 5 MID and 3 FWD, at a total cost
\* of at most 100.
C6_ScenarioSquad ==
    (/\ result.op = "build_optimal_squad"
     /\ result.budget = 1000
     /\ Scored
     /\ Len(players_df.rows) = Len(upstream)
     /\ ScenarioFrame(players_df.rows))
        => /\ SquadReturned
           /\ Len(result.squad) = 15
           /\ Cardinality(SquadIds) = 15
           /\ QuotasFilled(result.squad)
           /\ result.total_cost <= 1000

\* C6 witness: the scenario's squad is returned, and 12 forwards that score
\* above a forward of the squad were passed over because their clubs were
\* full.
C6_FullClubsPassedOver ==
    /\ SquadReturned
    /\ Scored
    /\ ScenarioFrame(players_df.rows)
    /\ \E k \in DOMAIN result.squad :
           /\ result.squad[k].position = "FWD"
           /\ Cardinality({i \in DOMAIN players_df.rows :
                  /\ players_df.rows[i].position = "FWD"
                  /\ players_df.rows[i].id \notin SquadIds
                  /\ players_df.rows[i].value_score > result.squad[k].value_score
                  /\ CountTeam(result.squad, players_df.rows[i].team_short) = 3})
                  = 12

\* C11: a run of build_optimal_squad on a scored frame does not raise, also
\* when a quota is left open or no player at all is selected: it returns the
\* squad it has.
C11_PartialSquadReturned ==
    (result.op = "build_optimal_squad" /\ Scored) => result.raised = "none"

\* the metric columns scoring requires
RequiredMetrics ==
    {"form", "points_per_game", "ict_index", "expected_goals",
     "expected_assists", "total_points"}

\* C12: scoring a loaded frame that lacks a required metric column fails
\* with a ConfigurationError that names the missing column.
C12_ConfigurationErrorNamesMetric ==
    (/\ result.op = "calculate_value_score"
     /\ players_df.loaded
     /\ RequiredMetrics \ Columns(players_df.rows) # {})
        => /\ result.raised = "ConfigurationError"
           /\ result.key \in RequiredMetrics \ Columns(players_df.rows)

\* C13: an outcome predict_match_outcome returns is the one that the team
\* strength of the snapshot now loaded gives.
C13_OutcomeFromLoadedSnapshot ==
    (OutcomeReturned /\ players_df.loaded /\ ~players_df.has_value_score)
        => result.outcome =
               PredictMatchOutcome(CalculateTeamStrength(players_df),
                                   result.home_team, result.away_team)

\* a request of the last team load failed
FetchFailed ==
    \E k \in DOMAIN result.fetched : result.fetched[k] # "ok"

\* C14: a team load during which a request to the API failed ends in an
\* outcome that differs from success: load_my_team_from_fpl, which returns
\* None after a success, raises; /api/load-team answers success = false.
C14_FetchFailureSurfaces ==
    /\ (result.op = "load_my_team_from_fpl" /\ FetchFailed)
           => result.raised # "none"
    /\ (result.op = "load_team" /\ result.manager_id # 0 /\ FetchFailed)
           => ~result.response.success

\* C15: a step of build_optimal_squad or recommend_transfers leaves the
\* player snapshot players_df and the saved team as they were.
C15_NoSideEffects ==
    [][(result'.op \in {"build_optimal_squad", "recommend_transfers"})
           => /\ players_df' = players_df
              /\ my_team' = my_team
              /\ my_team_file' = my_team_file]_vars

\* C16: for a home club of overall strength 120 and an away club of overall
\* strength 80 the strength difference is 58 and the bands give 0.716, 0.25
\* and 0.034; the away win is returned as at least 0.05 and the three
\* returned probabilities, renormalized, sum to 1.
C16_ScenarioRenormalized ==
    (/\ OutcomeReturned
     /\ Overall(team_strength, result.home_team) = 12000
     /\ Overall(team_strength, result.away_team) = 8000)
        => /\ StrengthDiff(team_strength, result.home_team, result.away_team)
                  = 580000
           /\ Bands(580000) = [home_win |-> 7160000, draw |-> 2500000,
                               away_win |-> 340000]
           /\ result.outcome.away_win >= 500000
           /\ result.outcome.home_win + result.outcome.draw
                  + result.outcome.away_win = ProbDen

\* recommend_transfers has run on a scored frame
TransfersRun == result.op = "recommend_transfers" /\ Scored

\* no available player outside the squad, of the position of a squad member
\* and priced within 1.5 of him, scores above him
NoImprovingCandidate ==
    \A i, j \in DOMAIN players_df.rows :
        LET out == players_df.rows[i]
            in == players_df.rows[j]
        IN  (/\ out.id \in result.current_team_ids
             /\ in.id \notin result.current_team_ids
             /\ in.position = out.position
             /\ in.status = "a"
             /\ Abs(in.price - out.price) <= 15)
                => in.value_score <= out.value_score

\* C17: when no candidate improves on any squad member, recommend_transfers
\* does not raise and returns an empty result.
C17_EmptyResultReturned ==
    (TransfersRun /\ NoImprovingCandidate)
        => result.raised = "none" /\ result.recommendations = <<>>

\* C17 witness: an empty result is returned for a squad of 15 although a
\* player outside it scores above a squad member of his position: he is
\* priced out of the window or is not available.
C17_NothingBetterInReach ==
    /\ TransfersRun
    /\ NoImprovingCandidate
    /\ Cardinality(result.current_team_ids) = 15
    /\ result.raised = "none"
    /\ result.recommendations = <<>>
    /\ \E i, j \in DOMAIN players_df.rows :
           /\ players_df.rows[i].id \in result.current_team_ids
           /\ players_df.rows[j].id \notin result.current_team_ids
           /\ players_df.rows[j].position = players_df.rows[i].position
           /\ players_df.rows[j].value_score > players_df.rows[i].value_score

\* build_optimal_squad has run on a scored frame; the squad it selected
\* (none when it raised on an empty selection)
SquadBuilt == result.op = "build_optimal_squad" /\ Scored

SelectedSquad == IF result.raised = "none" THEN result.squad ELSE <<>>

SelectedIds == {SelectedSquad[k].id : k \in DOMAIN SelectedSquad}

\* the number of the position p in the order of processing
PositionNumber(p) == CHOOSE k \in DOMAIN Positions : Positions[k] = p

\* the squad members accepted before the k-th candidate of the scan `order`
\* of the position p: those of the positions before p, and those that come
\* before it in the scan
AcceptedBefore(rows, order, p, k) ==
    {n \in DOMAIN SelectedSquad :
        \/ PositionNumber(SelectedSquad[n].position) < PositionNumber(p)
        \/ \E h \in 1..(k - 1) : rows[order[h]].id = SelectedSquad[n].id}

\* the k-th candidate of the scan is in the squad exactly if, at its turn,
\* the quota is open, its club has fewer than 3 accepted members and its
\* price is within what remains of the budget
AcceptedIff(rows, order, p, k) ==
    LET candidate == rows[order[k]]
        before == AcceptedBefore(rows, order, p, k)
        spent == SumSeq([n \in DOMAIN SelectedSquad |->
                            IF n \in before THEN SelectedSquad[n].price ELSE 0])
    IN  candidate.id \in SelectedIds
        <=> /\ Cardinality({n \in before : SelectedSquad[n].position = p})
                   < Formation[p]
            /\ Cardinality({n \in before :
                               SelectedSquad[n].team_short = candidate.team_short})
                   < 3
            /\ candidate.price <= result.budget - spent

ProcessingOrders ==
    {perm \in [1..4 -> Range(Positions)] : Range(perm) = Range(Positions)}

\* the players selected when the positions are processed in the order perm
SelectedIn(perm, orders) ==
    LET sel == SelectSquad(EmptySelection(result.budget), players_df.rows,
                           orders, perm)
    IN  {sel.squad[k].id : k \in DOMAIN sel.squad}

NothingBinds ==
    /\ result.budget >= PoolPrice(players_df.rows)
    /\ \A i \in DOMAIN players_df.rows :
           Cardinality({j \in DOMAIN players_df.rows :
                           /\ players_df.rows[j].status = "a"
                           /\ players_df.rows[j].team_short
                                  = players_df.rows[i].team_short}) <= 3

RECURSIVE TieBrokenOrder(_, _)
TieBrokenOrder(rows, S) ==
    IF S = {} THEN <<>>
    ELSE LET Before(i, j) ==
                 \/ rows[i].value_score > rows[j].value_score
                 \/ /\ rows[i].value_score = rows[j].value_score
                    /\ \/ rows[i].price < rows[j].price
                       \/ rows[i].price = rows[j].price /\ rows[i].id <= rows[j].id
             first == CHOOSE i \in S : \A j \in S : Before(i, j)
         IN  <<first>> \o TieBrokenOrder(rows, S \ {first})

\* C20: the squad build_optimal_squad selects is the one selected when each
\* position's available candidates are considered in descending value
\* score, ties broken by ascending price and then by identifier.
C20_TiesByPriceThenId ==
    SquadBuilt =>
        SelectedIds =
            SelectedIn(Positions,
                       [p \in Range(Positions) |->
                           TieBrokenOrder(players_df.rows,
                                          PositionPlayers(players_df.rows, p))])

\* the squad and the players outside it, as recommend_transfers splits the
\* scored frame
CurrentTeam ==
    SelectSeq(players_df.rows, LAMBDA r : r.id \in result.current_team_ids)

AvailableFor(position) ==
    SelectSeq(players_df.rows,
              LAMBDA r : r.id \notin result.current_team_ids /\ r.position = position)

\* the surviving candidates of the squad member out: those that pass the
\* price, score, status and club filters
Survivors(out) ==
    PlayerRecommendations(ValueCounts(CurrentTeam), AvailableFor(out.position), out)

\* the (up to) 3 survivors of out with the greatest score improvement
TopThreeOf(out) ==
    LET s == Survivors(out)
    IN  {s[k] : k \in {k \in DOMAIN s :
            Cardinality({h \in DOMAIN s :
                s[h].score_improvement > s[k].score_improvement}) < 3}}

TopThreePerPlayer ==
    UNION {TopThreeOf(CurrentTeam[n]) : n \in DOMAIN CurrentTeam}

\* C21: the (up to) 3 best surviving candidates of every outgoing player are
\* kept whatever the other outgoing players of his position contribute:
\* when the final cut of transfers_available * 3 leaves room for all of
\* them, each is in the returned list.
C21_TopThreePerOutgoingPlayer ==
    (/\ TransfersRun
     /\ result.raised = "none"
     /\ Cardinality(TopThreePerPlayer) <= 3 * result.transfers_available)
        => \A rec \in TopThreePerPlayer :
               \E k \in DOMAIN result.recommendations :
                   /\ result.recommendations[k].out = rec.out
                   /\ result.recommendations[k].in = rec.in

\* the surviving candidates of all outgoing players, across all positions
AllSurvivors ==
    UNION {Range(Survivors(CurrentTeam[n])) : n \in DOMAIN CurrentTeam}

\* the transfer a recommendation stands for
Transfer(rec) == <<rec.out, rec.in>>

\* C22: for every transfers_available >= 0 recommend_transfers returns a
\* list in descending score improvement that consists of the
\* min(transfers_available * 3, number of surviving candidates) surviving
\* candidates of greatest score improvement.
C22_TopOverall ==
    TransfersRun =>
        /\ result.raised = "none"
        /\ LET recs == result.recommendations
               returned == {Transfer(recs[k]) : k \in DOMAIN recs}
           IN  /\ \A k \in 1..(Len(recs) - 1) :
                      recs[k].score_improvement >= recs[k + 1].score_improvement
               /\ Len(recs) = Min2(3 * result.transfers_available,
                                   Cardinality(AllSurvivors))
               /\ Cardinality(returned) = Len(recs)
               /\ returned \subseteq {Transfer(s) : s \in AllSurvivors}
               /\ \A s \in AllSurvivors :
                      Transfer(s) \notin returned =>
                          \A k \in DOMAIN recs :
                              recs[k].score_improvement >= s.score_improvement

\* the outgoing player is in the squad asked about; the incoming player is
\* outside it, plays the same position, is available and costs within the
\* price window of the outgoing player
ProperCandidate(rec) ==
    /\ rec.out \in result.current_team_ids
    /\ rec.in \notin result.current_team_ids
    /\ Player(rec.in).position = Player(rec.out).position
    /\ Player(rec.in).status = "a"
    /\ Abs(Player(rec.in).price - Player(rec.out).price) <= PriceWindow

\* C23: in every candidate recommend_transfers proposes the outgoing player
\* is a member of the current squad, and the incoming player is not in the
\* squad, has the outgoing player's position, has status available and a
\* price within 1.5 (inclusive) of the outgoing player's price.
C23_CandidatesProper ==
    RecommendationsReturned =>
        \A k \in DOMAIN result.recommendations :
            ProperCandidate(result.recommendations[k])

\* a candidate at the very edge of the price window was proposed while a
\* defender of high form beyond the window was not
C23_EdgeOfWindowProposed ==
    /\ RecommendationsReturned
    /\ \E k \in DOMAIN result.recommendations :
           LET rec == result.recommendations[k]
           IN  Abs(Player(rec.in).price - Player(rec.out).price) = PriceWindow
    /\ \E i \in DOMAIN upstream :
           /\ upstream[i].id \notin result.current_team_ids
           /\ upstream[i].position = "DEF"
           /\ upstream[i].price = 70

\* p in halves: 0.5 where the source reports a chance of playing below 100,
\* 1 where it reports 100 or reports none
ReportedChanceFactor(id) ==
    LET chance == Player(id).chance_of_playing_next_round
    IN  IF chance # NaN /\ chance < 100 THEN 1 ELSE 2

\* q in tenths: 0.3 where the status is not available, 1 otherwise
StatusFactor(id) == IF Player(id).status # "a" THEN 3 ELSE 10

\* C24: the final value score of a player equals the base composite times p
\* and q, where p = 0.5 if the player's chance of playing the next round is
\* reported as less than 100 and 1 otherwise, and q = 0.3 if the player's
\* status is not available and 1 otherwise.
C24_ScoreIsCompositeTimesPenalties ==
    Scored =>
        \A i \in DOMAIN players_df.rows :
            LET r == players_df.rows[i]
            IN  r.value_score =
                    Composite(r.normalized, players_df.scale)
                        * ReportedChanceFactor(r.id) * StatusFactor(r.id)

----------------------------------------------------------------------------
(* SpecFdr: the fixture difficulty rating of a club's next fixtures        *)

\* lines 153-156: the unfinished fixtures of the team, the first
\* next_n_fixtures of them
Upcoming(rows, team, next_n_fixtures) ==
    Take(SelectSeq(rows, LAMBDA f : /\ f.finished = FALSE
                                    /\ (f.home_team = team \/ f.away_team = team)),
         next_n_fixtures)

\* the team's win probability read from the home side whatever the venue
WinProbHomeSide(outcome, is_home) == outcome.home_win

\* lines 190-193: the team's own win probability
WinProb(outcome, is_home) ==
    IF is_home THEN outcome.home_win ELSE outcome.away_win

\* lines 196-203: FDR from the win probability
Fdr(win_prob) ==
    IF 100 * win_prob > 55 * ProbDen THEN 2
    ELSE IF 100 * win_prob > 40 * ProbDen THEN 3
    ELSE IF 100 * win_prob > 25 * ProbDen THEN 4
    ELSE 5

\* round(p * 100, 1), in tenths of a percent
RoundPercent(p) ==
    LET q == p \div 10000
        r == p % 10000
    IN  IF r > 5000 \/ (r = 5000 /\ q % 2 = 1) THEN q + 1 ELSE q

\* lines 160-213: the analysis of one fixture (the columns derived from the
\* outcome; the goal and clean-sheet columns are computed beside them from
\* the same team_strength and raise nothing)
FixtureAnalysis(strength, team, fixture) ==
    LET is_home == fixture.home_team = team
        opponent == IF is_home THEN fixture.away_team ELSE fixture.home_team
        outcome == IF is_home
                   THEN PredictMatchOutcome(strength, team, opponent)
                   ELSE PredictMatchOutcome(strength, opponent, team)
        win_prob == WinProb(outcome, is_home)
    IN  [gameweek |-> fixture.event,
         opponent |-> opponent,
         venue |-> IF is_home THEN "H" ELSE "A",
         fdr |-> Fdr(win_prob),
         win_prob |-> RoundPercent(win_prob),
         draw_prob |-> RoundPercent(outcome.draw),
         loss_prob |-> RoundPercent(IF is_home THEN outcome.away_win
                                               ELSE outcome.home_win)]

\* AdvancedFixturePredictor.calculate_advanced_fdr(team, next_n_fixtures):
\* a fixtures_df of None cannot be indexed; the first prediction computes an
\* empty team_strength from the analyzer's frame
calculate_advanced_fdr(team, next_n_fixtures) ==
    LET call == [op |-> "calculate_advanced_fdr", team |-> team,
                 next_n_fixtures |-> next_n_fixtures]
        upcoming == Upcoming(fixtures_df.rows, team, next_n_fixtures)
    IN  /\ UNCHANGED <<upstream, fixtures, fixtures_df, players_df, app>>
        /\ IF \/ ~fixtures_df.loaded
              \/ upcoming # <<>> /\ team_strength = <<>> /\ ~players_df.loaded
           THEN /\ team_strength' = team_strength
                /\ result' = call @@ [raised |-> "TypeError"]
           ELSE LET strength == IF upcoming # <<>> /\ team_strength = <<>>
                                THEN CalculateTeamStrength(players_df)
                                ELSE team_strength
                IN  /\ team_strength' = strength
                    /\ result' = call @@
                           [raised |-> "none", upcoming |-> upcoming,
                            rows |-> [k \in DOMAIN upcoming |->
                                         FixtureAnalysis(strength, team, upcoming[k])]]

\* the number of fixtures the source serves
NumFixtures == 2

\* the seasons: ARS and LIV meet at either ground, a match played or to come
RECURSIVE Seasons(_)
Seasons(n) ==
    IF n = 0 THEN {<<>>}
    ELSE {Append(rest, Fixture(n, home_team, away_team, finished)) :
              rest \in Seasons(n - 1),
              home_team \in Clubs, away_team \in Clubs, finished \in BOOLEAN}

\* no club plays itself
ProperSeason(season) ==
    \A k \in DOMAIN season : season[k].home_team # season[k].away_team

InitFdr ==
    InitWithFixtures(FixtureLeagues,
                     {season \in Seasons(NumFixtures) : ProperSeason(season)})

NextFdr ==
    \/ load_data
    \/ \E team \in Clubs, next_n_fixtures \in {1, 5} :
           calculate_advanced_fdr(team, next_n_fixtures)

SpecFdr == InitFdr /\ [][NextFdr]_vars

FdrReturned == result.op = "calculate_advanced_fdr" /\ result.raised = "none"

\* the win probability of the team of the call in the fixture its row k
\* stands for, from the strengths the predictor holds
OwnWinProbability(k) ==
    LET fixture == result.upcoming[k]
        outcome == PredictMatchOutcome(team_strength, fixture.home_team,
                                       fixture.away_team)
    IN  IF fixture.home_team = result.team
        THEN outcome.home_win ELSE outcome.away_win

\* C25: every fixture row calculate_advanced_fdr produces carries a rating in
\* 1..5 given by the team's own win probability w (home_win at home, away_win
\* away): 2 if w > 0.55, 3 if w > 0.40, 4 if w > 0.25, otherwise 5.
C25_RatingFromOwnWinProbability ==
    FdrReturned =>
        \A k \in DOMAIN result.rows :
            LET w == OwnWinProbability(k)
                fdr == result.rows[k].fdr
            IN  /\ fdr \in 1..5
                /\ (fdr = 2) = (100 * w > 55 * ProbDen)
                /\ (fdr = 3) = (100 * w <= 55 * ProbDen /\ 100 * w > 40 * ProbDen)
                /\ (fdr = 4) = (100 * w <= 40 * ProbDen /\ 100 * w > 25 * ProbDen)
                /\ (fdr = 5) = (100 * w <= 25 * ProbDen)

\* one call rated the home fixture easy and the away fixture against the
\* same club harder
C25_AwayAndHomeRated ==
    /\ FdrReturned
    /\ \E h, a \in DOMAIN result.rows :
           /\ result.rows[h].venue = "H"
           /\ result.rows[a].venue = "A"
           /\ result.rows[h].fdr = 2
           /\ result.rows[a].fdr > 2

\* C26: across any sequence of requests get_assistant never returns an
\* assistant on which initialize() and the feature loaders have not
\* completed: a request that finds the singleton already constructed (and so
\* is handed it without initializing) finds it fully initialized, a failed
\* initialization being retried by the next request.
C26_SingletonNeverPartial ==
    [][(/\ result'.op = "load_team"
        /\ result'.manager_id # 0
        /\ assistant # "None")
           => assistant = "ready"]_vars

----------------------------------------------------------------------------
(* SpecSavedTeam: the saved team under saves and loads of 15 players or not *)

\* FPLAssistant.save_my_team(player_ids): a list of another length than 15 is
\* refused; a players_df of None cannot be indexed
save_my_team(player_ids) ==
    LET call == [op |-> "save_my_team", player_ids |-> player_ids]
    IN  /\ UNCHANGED <<upstream, fixtures, fixtures_df, players_df, team_strength,
                       assistant>>
        /\ IF Len(player_ids) # SquadSize
           THEN /\ result' = call @@ [raised |-> "none"]
                /\ UNCHANGED <<my_team, my_team_file>>
           ELSE IF ~players_df.loaded
           THEN /\ result' = call @@ [raised |-> "TypeError"]
                /\ UNCHANGED <<my_team, my_team_file>>
           ELSE /\ result' = call @@ [raised |-> "none"]
                /\ my_team' = [saved |-> TRUE, player_ids |-> player_ids,
                               players |-> TeamDetails(players_df, player_ids)]
                /\ my_team_file' = my_team'

\* the identifiers first, first + 1, ... as a list of n
IdList(first, n) == [i \in 1..n |-> first + i - 1]

\* the lists a caller saves: 15 identifiers, one fewer, one more
SavedLists == {IdList(1, SquadSize), IdList(1, SquadSize - 1),
               IdList(1, SquadSize + 1)}

\* the picks the API serves: a full squad, or a list one short of it
ServedPicks == {IdList(2, SquadSize), IdList(2, SquadSize - 1)}

\* at most one request of a team load fails
OneFailure ==
    {f \in Fetches : Cardinality({k \in DOMAIN f : f[k] # "ok"}) <= 1}

InitSavedTeam == InitWith(TeamLoadPools)

NextSavedTeam ==
    \/ \E bootstrap \in FetchOutcomes : initialize(bootstrap)
    \/ \E player_ids \in SavedLists : save_my_team(player_ids)
    \/ \E fetched \in OneFailure, picks \in ServedPicks, written \in WriteOutcomes :
           load_my_team_from_fpl(42, fetched, picks, written)
    \/ \E manager_id \in {0, 42}, fetched \in OneFailure, picks \in ServedPicks,
          written \in WriteOutcomes :
           load_team(manager_id, fetched, picks, written)

SpecSavedTeam == InitSavedTeam /\ [][NextSavedTeam]_vars

\* C27: after any sequence of initialize, save_my_team, load_my_team_from_fpl
\* and /api/load-team operations the saved team, whenever it is set, holds
\* exactly 15 player identifiers; save_my_team called with a list of any
\* other length leaves my_team and the stored file unchanged.
C27_SavedTeamHasFifteen ==
    [][/\ my_team'.saved => Len(my_team'.player_ids) = SquadSize
       /\ (result'.op = "save_my_team" /\ Len(result'.player_ids) # SquadSize)
              => (my_team' = my_team /\ my_team_file' = my_team_file)]_vars

\* a step of a team load failed: a request of it, or the write of the file
LoadFailed ==
    \/ \E k \in DOMAIN result.fetched : result.fetched[k] # "ok"
    \/ result.written # "ok"

\* C28: when load_my_team_from_fpl or the /api/load-team request fails at any
\* step (fetch, lookup of a field, or writing the team file), the in-memory
\* saved team is exactly what it was before the call.
C28_FailedLoadKeepsTeam ==
    [][/\ (result'.op = "load_my_team_from_fpl" /\ LoadFailed')
              => my_team' = my_team
       /\ (result'.op = "load_team" /\ result'.response.status = 500)
              => my_team' = my_team]_vars

\* the selection after the first k candidates of the j-th position have been
\* scanned, the positions before it being done
SelectionAt(budget, rows, orders, j, k) ==
    LET p == Positions[j]
        before == SelectSquad(EmptySelection(budget), rows, orders,
                              Take(Positions, j - 1))
    IN  SelectPosition(before, rows, Take(orders[p], k), 0, Formation[p])

\* no player twice, no position above its quota
WellFormedSquad(squad) ==
    /\ \A m, n \in DOMAIN squad : squad[m].id = squad[n].id => m = n
    /\ \A j \in DOMAIN Positions :
           CountPosition(squad, Positions[j]) <= Formation[Positions[j]]

\* C29: at every step of build_optimal_squad and in its result no player
\* appears twice in the squad, the number of selected players of each
\* position never exceeds the position's quota (2/5/5/3), and the remaining
\* budget equals the budget minus the total price of the players selected so
\* far.
C29_SelectionInvariants ==
    SquadBuilt =>
        /\ WellFormedSquad(SelectedSquad)
        /\ \A orders \in SquadOrders(players_df.rows) :
               \A j \in DOMAIN Positions :
                   \A k \in 0..Len(orders[Positions[j]]) :
                       LET sel == SelectionAt(result.budget, players_df.rows,
                                              orders, j, k)
                       IN  /\ WellFormedSquad(sel.squad)
                           /\ sel.remaining_budget = result.budget -
                                  SumSeq([n \in DOMAIN sel.squad |->
                                             sel.squad[n].price])

\* a squad was returned whose goalkeeper quota is filled with a goalkeeper
\* left over, and whose budget ran out before the last quota was filled
C29_QuotaAndBudgetReached ==
    /\ SquadBuilt
    /\ SquadReturned
    /\ CountPosition(result.squad, "GK") = Formation["GK"]
    /\ \E i \in DOMAIN players_df.rows :
           /\ players_df.rows[i].position = "GK"
           /\ players_df.rows[i].status = "a"
           /\ players_df.rows[i].id \notin SquadIds
    /\ CountPosition(result.squad, "FWD") < Formation["FWD"]
    /\ result.total_cost < result.budget

----------------------------------------------------------------------------
(* SpecWildcard: FPLAdvancedAnalyzer.wildcard_optimizer                    *)

\* fpl_advanced_features.py line 243: next_n_gameweeks=8 and head(8)
FixtureRun == 8

\* lines 36-39: the average difficulty of a team's games, the mean of its
\* home mean and its away mean (of the one there is), as num / den
AvgDifficulty(games, team) ==
    LET home == SelectSeq(games, LAMBDA f : f.home_team = team)
        away == SelectSeq(games, LAMBDA f : f.away_team = team)
        hsum == SumSeq([k \in DOMAIN home |-> home[k].team_h_difficulty])
        asum == SumSeq([k \in DOMAIN away |-> away[k].team_a_difficulty])
    IN  IF home = <<>> THEN [num |-> asum, den |-> Len(away)]
        ELSE IF away = <<>> THEN [num |-> hsum, den |-> Len(home)]
        ELSE [num |-> hsum * Len(away) + asum * Len(home),
              den |-> 2 * Len(home) * Len(away)]

\* lines 30-50: the teams of the frame that have games to come, each with
\* its average difficulty
TeamFixtures(fixture_rows, player_rows) ==
    LET teams == {t \in TeamsOf(player_rows) :
                     Upcoming(fixture_rows, t, FixtureRun) # <<>>}
    IN  [t \in teams |-> AvgDifficulty(Upcoming(fixture_rows, t, FixtureRun), t)]

\* lines 52-53 and 243-244: sort_values('avg_difficulty') and head(8): the
\* sets of teams the head may hold, teams of equal difficulty in any order
GoodFixtureTeams(team_fixtures) ==
    {good \in SUBSET DOMAIN team_fixtures :
        /\ Cardinality(good) = Min2(FixtureRun, Cardinality(DOMAIN team_fixtures))
        /\ \A t \in good : \A u \in DOMAIN team_fixtures \ good :
               team_fixtures[t].num * team_fixtures[u].den
                   <= team_fixtures[u].num * team_fixtures[t].den}

\* lines 247-251: wildcard_score, value_score times 1.2 for the teams of
\* good fixtures, as a numerator over 5 * score_den
WildcardScored(rows, good) ==
    [i \in DOMAIN rows |->
        [wildcard_score |-> IF rows[i].team_short \in good
                            THEN 6 * rows[i].value_score
                            ELSE 5 * rows[i].value_score] @@ rows[i]]

\* lines 260-265: the must-have players join the squad whatever they cost
RECURSIVE AddMustHave(_, _)
AddMustHave(sel, players) ==
    IF players = <<>> THEN sel
    ELSE AddMustHave(
             [squad |-> Append(sel.squad, Head(players)),
              remaining_budget |-> sel.remaining_budget - Head(players).price,
              formation |-> [sel.formation EXCEPT ![Head(players).position] = @ - 1]],
             Tail(players))

\* lines 272-276: the candidates of a position, as row indexes
WildcardPlayers(rows, squad, position) ==
    {i \in DOMAIN rows :
        /\ rows[i].position = position
        /\ rows[i].status = "a"
        /\ rows[i].id \notin {squad[k].id : k \in DOMAIN squad}}

\* line 276: sort_values('wildcard_score', ascending=False), ties in any order
RECURSIVE SortWildcard(_, _)
SortWildcard(rows, S) ==
    IF S = {} THEN {<<>>}
    ELSE LET top == SetMax({rows[i].wildcard_score : i \in S})
         IN  UNION {{<<i>> \o rest : rest \in SortWildcard(rows, S \ {i})} :
                        i \in {j \in S : rows[j].wildcard_score = top}}

\* lines 278-285: the scan of one position
RECURSIVE FillPosition(_, _, _, _, _)
FillPosition(sel, rows, order, selected, count) ==
    IF order = <<>> \/ selected >= count THEN sel
    ELSE LET player == rows[Head(order)]
         IN  IF player.price <= sel.remaining_budget
             THEN FillPosition([sel EXCEPT
                                   !.squad = Append(@, player),
                                   !.remaining_budget = @ - player.price],
                               rows, Tail(order), selected + 1, count)
             ELSE FillPosition(sel, rows, Tail(order), selected, count)

\* lines 268-285: the positions in turn; the squads the sort may lead to
RECURSIVE FillSquad(_, _, _)
FillSquad(sel, rows, positions) ==
    IF positions = <<>> THEN {sel}
    ELSE LET p == Head(positions)
         IN  IF sel.formation[p] <= 0 THEN FillSquad(sel, rows, Tail(positions))
             ELSE UNION {FillSquad(FillPosition(sel, rows, order, 0, sel.formation[p]),
                                   rows, Tail(positions)) :
                            order \in SortWildcard(rows,
                                         WildcardPlayers(rows, sel.squad, p))}

\* FPLAdvancedAnalyzer.wildcard_optimizer(budget, must_have_ids): None has no
\* copy(); an empty fixture analysis has no 'avg_difficulty' to sort by; a
\* frame that was not scored has no 'value_score'; an empty squad has no
\* 'price'
wildcard_optimizer(budget, must_have_ids) ==
    LET call == [op |-> "wildcard_optimizer", budget |-> budget,
                 must_have_ids |-> must_have_ids]
        team_fixtures == TeamFixtures(fixtures_df.rows, players_df.rows)
    IN  /\ UNCHANGED <<upstream, fixtures, fixtures_df, players_df, team_strength,
                       app>>
        /\ IF ~players_df.loaded
           THEN result' = call @@ [raised |-> "AttributeError"]
           ELSE IF DOMAIN team_fixtures = {} \/ ~players_df.has_value_score
           THEN result' = call @@ [raised |-> "KeyError"]
           ELSE \E good \in GoodFixtureTeams(team_fixtures) :
                    LET rows == WildcardScored(players_df.rows, good)
                        must_have_players ==
                            SelectSeq(rows, LAMBDA r : r.id \in must_have_ids)
                        start == AddMustHave([squad |-> <<>>,
                                              remaining_budget |-> budget,
                                              formation |-> Formation],
                                             must_have_players)
                    IN  \E sel \in FillSquad(start, rows, Positions) :
                            result' = IF sel.squad = <<>>
                                      THEN call @@ [raised |-> "KeyError"]
                                      ELSE call @@ [raised |-> "none",
                                                    squad |-> sel.squad]

\* the fixtures served: none to come, one to come between the two clubs,
\* one to come against a club without players in the data
WildcardSeasons ==
    {<<Fixture(1, "ARS", "LIV", TRUE)>>,
     <<RatedFixture(1, "ARS", "LIV", FALSE, 2, 4)>>,
     <<RatedFixture(1, "ARS", "CHE", FALSE, 2, 4)>>}

InitWildcard == InitWithFixtures(SquadPools(NumCandidates), WildcardSeasons)

NextWildcard ==
    \/ load_data
    \/ calculate_value_score
    \/ \E budget \in {100, 1000}, must_have_ids \in {{}, {1}} :
           wildcard_optimizer(budget, must_have_ids)

SpecWildcard == InitWildcard /\ [][NextWildcard]_vars

\* C30: for every budget and every list of must-have players the squad
\* wildcard_optimizer returns has at most 3 players from any one club, as
\* build_optimal_squad's squads do.
C30_WildcardAtMostThreePerClub ==
    (result.op = "wildcard_optimizer" /\ result.raised = "none")
        => \A team \in TeamsOf(result.squad) : CountTeam(result.squad, team) <= 3

====
